---- MODULE Spec2Model ----
(***************************************************************************)
(* Model of src/main.py: the page-shift transform shift_pdf_pages and the  *)
(* GUI click handler process_pdf that validates the form and calls it.     *)
(*                                                                         *)
(* Units.  shift_cm is kept in tenths of a centimetre and a translation in *)
(* thousandths of a point, so shift = shift_cm * 28.35 is the integer      *)
(* product shift_cm * 2835 (1.0 cm = 10 tenths = 28350 = 28.35 pt).        *)
(***************************************************************************)
EXTENDS Integers, Sequences, FiniteSets, TLC

VARIABLES
    \* ---- the form (closure variables of main) ----
    input_file,        \* input_file.value: a path, <<>> when empty
    output_file,       \* output_file.value: a path, <<>> when empty
    shift_value,       \* shift_value.value: text, a tuple of characters
    range_start,       \* range_start.value: text
    range_end,         \* range_end.value: text
    direction_switch,  \* direction_switch.value
    status,            \* status.value
    \* ---- process_pdf ----
    hpc,               \* position of the click handler
    calls,             \* shift_pdf_pages invocations made by the last click
    shown,             \* statuses displayed by page.update() in the last click
    \* ---- shift_pdf_pages: arguments, locals, position ----
    pc,
    input_path, output_path, shift_cm, start_page, end_page, first_right,
    reader, writer, shift, total_pages, i,
    end_arg,           \* the end_page argument as passed (end_page is reassigned)
    err,               \* message of the exception raised, "" when none
    \* ---- the file system ----
    dest,              \* the file at the output path
    dest0,             \* the file at the output path when the call began
    \* ---- a caller that runs the transform again ----
    run, prev

vars == << input_file, output_file, shift_value, range_start, range_end,
           direction_switch, status, hpc, calls, shown, pc, input_path,
           output_path, shift_cm, start_page, end_page, first_right, reader,
           writer, shift, total_pages, i, end_arg, err, dest, dest0, run, prev >>

form == << input_file, output_file, shift_value, range_start, range_end,
           direction_switch >>
handler == << status, hpc, calls, shown >>
args == << input_path, output_path, shift_cm, start_page, first_right,
           end_arg >>
locals == << reader, writer, shift, total_pages, i, end_page >>
driver == << run, prev >>

-----------------------------------------------------------------------------
(* Bounds *)

\* Largest page count of a modelled document.
MaxPages == 4

-----------------------------------------------------------------------------
(* Values *)

\* Python's None for the optional end_page, and a given value.
None == << >>
Some(v) == << v >>

\* Points per centimetre, 28.35, in thousandths of a point per tenth of a cm.
PointsPerCm == 2835

\* A page: where it came from, the transformations added to its content, and
\* whether its content stream is one add_transformation cannot process.
Page(k, bad) == [src |-> k, ops |-> << >>, malformed |-> bad]

\* A file: absent, or present with the pages serialized so far and whether
\* the cross-reference table and trailer that make it a document follow them.
NoFile == [exists |-> FALSE, pages |-> << >>, complete |-> FALSE]
Created == [exists |-> TRUE, pages |-> << >>, complete |-> FALSE]
Document(pages) == [exists |-> TRUE, pages |-> pages, complete |-> TRUE]

\* A document of n pages; page bad (0: none) has a malformed content stream.
Doc(n, bad) == Document([k \in 1..n |-> Page(k, k = bad)])

\* What the destination may hold before a call: nothing, or an older document.
StaleFile == Document(<< Page(0, FALSE) >>)
PriorFiles == {NoFile, StaleFile}

\* Paths.  <<>> is the empty string; <<"gone">> names no file; <<"corrupt">>
\* names a file that is no PDF document; <<"doc", n, bad>> names Doc(n, bad).
DocPaths == UNION {{<< "doc", n, bad >> : bad \in 0..n} : n \in 0..MaxPages}
FileAt(path) ==
    IF path = << >> \/ path = << "gone" >> THEN NoFile
    ELSE IF path = << "corrupt" >> THEN Created
    ELSE Doc(path[2], path[3])

-----------------------------------------------------------------------------
(* shift_pdf_pages, lines 6-44 *)

\* PdfReader(input_path), line 23: the pages of a complete document; a
\* missing file or one that is no document raises.
Readable(file) == file.exists /\ file.complete
ReadError(file) ==
    IF file.exists THEN "EOF marker not found"
    ELSE "No such file or directory"

\* EffectiveEnd without the clamp of line 27: a given end page is used as it is.
EffectiveEndNoClamp(e, total) ==
    IF e = None THEN total ELSE e[1]

\* Line 27-28: the end page the loop uses.
EffectiveEnd(e, total) ==
    IF e = None \/ e[1] > total THEN total ELSE e[1]

\* OutOfRange with one of the two tests of line 31 lost, or the two joined
\* by "and".
OutOfRangeNoEnd(page_num, start, end) == page_num < start
OutOfRangeNoStart(page_num, start, end) == page_num > end
OutOfRangeAnd(page_num, start, end) == page_num < start /\ page_num > end

\* Line 31: the page is outside the range and is copied as it is.
OutOfRange(page_num, start, end) == page_num < start \/ page_num > end

\* Direction taken from the parity of the page number instead of the offset
\* from start, and Direction with "not first_right" lost on odd offsets.
DirectionByPageNumber(page_num, start, right) ==
    IF (page_num % 2 = 1 /\ right) \/ (page_num % 2 = 0 /\ ~right)
    THEN 1 ELSE -1
DirectionOddFixed(page_num, start, right) ==
    IF ((page_num - start) % 2 = 0 /\ right) \/ (page_num - start) % 2 = 1
    THEN 1 ELSE -1

\* Lines 35-40: +1 for a translation to the right, -1 to the left.
Direction(page_num, start, right) ==
    IF ((page_num - start) % 2 = 0 /\ right)
         \/ ((page_num - start) % 2 = 1 /\ ~right)
    THEN 1 ELSE -1

\* Transformation().translate(tx, ty), lines 38 and 40.
Translate(tx, ty) == << tx, ty >>

\* page.add_transformation(t), line 41: the page's content is wrapped in t.
AddTransformation(page, t) == [page EXCEPT !.ops = Append(@, t)]

\* Lines 23-28: read the document, convert the distance, clamp the end page.
ReadInput ==
    /\ pc = "read"
    /\ LET file == FileAt(input_path) IN
       IF Readable(file)
       THEN /\ reader' = file.pages
            /\ writer' = << >>
            /\ shift' = shift_cm * PointsPerCm
            /\ total_pages' = Len(file.pages)
            /\ end_page' = EffectiveEnd(end_arg, Len(file.pages))
            /\ i' = 0
            /\ pc' = "loop"
            /\ err' = err
       ELSE /\ pc' = "raised"
            /\ err' = ReadError(file)
            /\ UNCHANGED locals
    /\ UNCHANGED << form, handler, args, dest, dest0, driver >>

\* CopyPage with the add_page of line 32 lost: the page is skipped.
CopyPageDrops ==
    /\ pc = "loop"
    /\ i < Len(reader)
    /\ OutOfRange(i + 1, start_page, end_page)
    /\ i' = i + 1
    /\ UNCHANGED << form, handler, args, pc, reader, writer, shift,
                    total_pages, end_page, err, dest, dest0, driver >>

\* Lines 29-33: a page outside the range is added unchanged.
CopyPage ==
    /\ pc = "loop"
    /\ i < Len(reader)
    /\ OutOfRange(i + 1, start_page, end_page)
    /\ writer' = Append(writer, reader[i + 1])
    /\ i' = i + 1
    /\ UNCHANGED << form, handler, args, pc, reader, shift, total_pages,
                    end_page, err, dest, dest0, driver >>

\* Lines 29-42: a page inside the range is translated in place, then added.
ShiftPage ==
    /\ pc = "loop"
    /\ i < Len(reader)
    /\ ~OutOfRange(i + 1, start_page, end_page)
    /\ LET page_num == i + 1
           t == Translate(Direction(page_num, start_page, first_right) * shift, 0)
           page == AddTransformation(reader[page_num], t) IN
       IF reader[page_num].malformed
       THEN /\ pc' = "raised"
            /\ err' = "content stream cannot be parsed"
            /\ UNCHANGED << reader, writer, i >>
       ELSE /\ reader' = [reader EXCEPT ![page_num] = page]
            /\ writer' = Append(writer, page)
            /\ i' = i + 1
            /\ UNCHANGED << pc, err >>
    /\ UNCHANGED << form, handler, args, shift, total_pages, end_page, dest,
                    dest0, driver >>

\* Line 43: open(output_path, "wb") creates or truncates the destination; a
\* path that names no creatable file raises and leaves the disk alone.
Creatable(path) == path # << >>
OpenOutput ==
    /\ pc = "loop"
    /\ i = Len(reader)
    /\ IF Creatable(output_path)
       THEN /\ dest' = Created
            /\ pc' = "write"
            /\ err' = err
       ELSE /\ pc' = "raised"
            /\ err' = "No such file or directory"
            /\ dest' = dest
    /\ UNCHANGED << form, handler, args, locals, dest0, driver >>

\* WritePage serializing the pages last first.
WritePageReversed ==
    /\ pc = "write"
    /\ Len(dest.pages) < Len(writer)
    /\ dest' = [dest EXCEPT
                  !.pages = Append(@, writer[Len(writer) - Len(dest.pages)])]
    /\ UNCHANGED << form, handler, args, locals, pc, err, dest0, driver >>

\* Line 44: writer.write(f) serializes the pages one after the other ...
WritePage ==
    /\ pc = "write"
    /\ Len(dest.pages) < Len(writer)
    /\ dest' = [dest EXCEPT !.pages = Append(@, writer[Len(dest.pages) + 1])]
    /\ UNCHANGED << form, handler, args, locals, pc, err, dest0, driver >>

\* ... and may fail at any point (the device is full): the with block closes
\* the file, which keeps what was written.
WriteFails ==
    /\ pc = "write"
    /\ pc' = "raised"
    /\ err' = "No space left on device"
    /\ UNCHANGED << form, handler, args, locals, dest, dest0, driver >>

\* ... and ends with the cross-reference table and trailer; the call returns.
WriteTrailer ==
    /\ pc = "write"
    /\ Len(dest.pages) = Len(writer)
    /\ dest' = [dest EXCEPT !.complete = TRUE]
    /\ pc' = "returned"
    /\ UNCHANGED << form, handler, args, locals, err, dest0, driver >>

shift_pdf_pages ==
    \/ ReadInput
    \/ CopyPage
    \/ ShiftPage
    \/ OpenOutput
    \/ WritePage
    \/ WriteFails
    \/ WriteTrailer

\* The state of the locals before a call binds them.
NoLocals ==
    /\ reader = << >>
    /\ writer = << >>
    /\ shift = 0
    /\ total_pages = 0
    /\ i = 0
    /\ end_page = 0

-----------------------------------------------------------------------------
(* The transform called directly, and called again with first_right flipped *)

ShiftCms == {-5, 0, 10}
PageArgs == (-1)..(MaxPages + 1)
CorePaths == {<< "gone" >>, << "corrupt" >>} \cup DocPaths
OutPaths == {<< >>, << "output" >>}

CoreInit ==
    /\ input_file = << >>
    /\ output_file = << "output" >>
    /\ shift_value = << "1" >>
    /\ range_start = << "1" >>
    /\ range_end = << >>
    /\ direction_switch = TRUE
    /\ status = ""
    /\ hpc = "direct"
    /\ calls = 0
    /\ shown = << >>
    /\ pc = "read"
    /\ input_path \in CorePaths
    /\ output_path \in OutPaths
    /\ shift_cm \in ShiftCms
    /\ start_page \in PageArgs
    /\ end_arg \in {None} \cup {Some(e) : e \in PageArgs}
    /\ first_right \in BOOLEAN
    /\ NoLocals
    /\ err = ""
    /\ dest \in PriorFiles
    /\ dest0 = dest
    /\ run = 1
    /\ prev = << >>

\* A second call on the same document with the same shift_cm, start_page and
\* end_page, and first_right flipped; the first output is kept for comparison.
Rerun ==
    /\ hpc = "direct"
    /\ pc = "returned"
    /\ run = 1
    /\ run' = 2
    /\ prev' = dest.pages
    /\ first_right' = ~first_right
    /\ pc' = "read"
    /\ reader' = << >>
    /\ writer' = << >>
    /\ shift' = 0
    /\ total_pages' = 0
    /\ i' = 0
    /\ end_page' = 0
    /\ dest0' = dest
    /\ UNCHANGED << form, handler, input_path, output_path, shift_cm,
                    start_page, end_arg, err, dest >>

CoreNext == shift_pdf_pages \/ Rerun

CoreSpec == CoreInit /\ [][CoreNext]_vars

-----------------------------------------------------------------------------
(* Text of the form's fields, and Python's float() and int() on it *)

Digit == {"0", "1", "2", "3", "4", "5", "6", "7", "8", "9"}
DigitVal(c) ==
    CASE c = "0" -> 0 [] c = "1" -> 1 [] c = "2" -> 2 [] c = "3" -> 3
      [] c = "4" -> 4 [] c = "5" -> 5 [] c = "6" -> 6 [] c = "7" -> 7
      [] c = "8" -> 8 [] c = "9" -> 9

Front(t) == SubSeq(t, 1, Len(t) - 1)
Last(t) == t[Len(t)]

\* str.strip(): leading and trailing blanks removed.
RECURSIVE LStrip(_)
LStrip(t) == IF t # << >> /\ Head(t) = " " THEN LStrip(Tail(t)) ELSE t
RECURSIVE RStrip(_)
RStrip(t) == IF t # << >> /\ Last(t) = " " THEN RStrip(Front(t)) ELSE t
Strip(t) == RStrip(LStrip(t))

AllDigits(t) == t # << >> /\ \A k \in 1..Len(t) : t[k] \in Digit
RECURSIVE NatOf(_)
NatOf(t) == IF t = << >> THEN 0 ELSE 10 * NatOf(Front(t)) + DigitVal(Last(t))

\* An optional sign in front of the rest.
Sign(t) == IF t # << >> /\ Head(t) = "-" THEN -1 ELSE 1
Unsigned(t) == IF t # << >> /\ Head(t) \in {"-", "+"} THEN Tail(t) ELSE t

\* int(text): blanks around, a sign, decimal digits; anything else raises.
ParseInt(t) ==
    LET u == Unsigned(Strip(t)) IN
    IF AllDigits(u) THEN [ok |-> TRUE, val |-> Sign(Strip(t)) * NatOf(u)]
    ELSE [ok |-> FALSE, val |-> 0]

\* float(text) on decimal notation: blanks around, a sign, digits with at
\* most one point and a digit on one side of it; anything else raises.  The
\* value is in tenths, digits after the first decimal place dropped.
PointAt(u) == IF \E k \in 1..Len(u) : u[k] = "."
              THEN CHOOSE k \in 1..Len(u) : u[k] = "." /\ \A j \in 1..(k - 1) : u[j] # "."
              ELSE Len(u) + 1
ParseFloat(t) ==
    LET u == Unsigned(Strip(t))
        k == PointAt(u)
        whole == SubSeq(u, 1, k - 1)
        frac == SubSeq(u, k + 1, Len(u))
        wellFormed == /\ whole # << >> \/ frac # << >>
                      /\ whole = << >> \/ AllDigits(whole)
                      /\ frac = << >> \/ AllDigits(frac)
        tenths == IF frac = << >> THEN 0 ELSE DigitVal(frac[1]) IN
    IF wellFormed
    THEN [ok |-> TRUE, val |-> Sign(Strip(t)) * (10 * NatOf(whole) + tenths)]
    ELSE [ok |-> FALSE, val |-> 0]

\* Line 112: int(range_end.value) if range_end.value.strip() else None.
ParseEnd(t) ==
    IF Strip(t) # << >>
    THEN [ok |-> ParseInt(t).ok, val |-> Some(ParseInt(t).val)]
    ELSE [ok |-> TRUE, val |-> None]

-----------------------------------------------------------------------------
(* main: the form, pick_file_result and process_pdf, lines 47-152 *)

\* status.value as set at lines 65, 106, 115, 118, 129 and 131.
SelectFile == "please select a valid PDF file"
EnterParams == "please enter valid parameters"
Processing == "processing..."
Done == "done"
Failed(ex) == "failed: " \o ex

\* What the user may type into the fields, and pick in the file dialog.
ShiftTexts == {<< "1" >>, << "-", ".", "5" >>, << "x" >>}
StartTexts == {<< "1" >>, << " ", "2" >>, << "1", ".", "5" >>}
EndTexts == {<< >>, << " " >>, << "2" >>, << "x" >>}
OutTexts == {<< >>, << "output" >>}
PickerPaths == {<< "gone" >>, << "corrupt" >>, << "doc", MaxPages, 1 >>}

\* os.path.isfile, line 105.
IsFile(path) == FileAt(path).exists

\* Line 88-89: the output name derived from the picked file's name.
DerivedName(path) == << "binding" >> \o path

\* The file a changed output name points at: not one written by this run of
\* the program under the name in use before.
Retarget(old, new) == IF new = old THEN {dest} ELSE PriorFiles

\* Lines 63-71 as built by main, before any event.
Init ==
    /\ input_file = << >>
    /\ output_file = << "output" >>
    /\ shift_value = << "1" >>
    /\ range_start = << "1" >>
    /\ range_end = << >>
    /\ direction_switch = TRUE
    /\ status = ""
    /\ hpc = "idle"
    /\ calls = 0
    /\ shown = << >>
    /\ pc = "idle"
    /\ input_path = << >>
    /\ output_path = << >>
    /\ shift_cm = 0
    /\ start_page = 0
    /\ end_arg = None
    /\ first_right = TRUE
    /\ NoLocals
    /\ err = ""
    /\ dest = NoFile
    /\ dest0 = NoFile
    /\ run = 0
    /\ prev = << >>

\* pick_file_result, lines 73-90: a cancelled dialog changes nothing.
pick_file_result ==
    /\ hpc = "idle"
    /\ \E files \in {<< >>} \cup {<< p >> : p \in PickerPaths} :
         IF files # << >>
         THEN /\ input_file' = files[1]
              /\ output_file' = DerivedName(files[1])
              /\ dest' \in Retarget(output_file, DerivedName(files[1]))
              /\ UNCHANGED << shift_value, range_start, range_end,
                              direction_switch >>
         ELSE UNCHANGED << form, dest >>
    /\ UNCHANGED << handler, pc, args, locals, err, dest0, driver >>

\* The user types into a field of lines 64-70 or flips the switch of line 71.
EditOutput ==
    /\ hpc = "idle"
    /\ \E t \in OutTexts :
         /\ output_file' = t
         /\ dest' \in Retarget(output_file, t)
    /\ UNCHANGED << input_file, shift_value, range_start, range_end,
                    direction_switch, handler, pc, args, locals, err, dest0,
                    driver >>

EditShift ==
    /\ hpc = "idle"
    /\ \E t \in ShiftTexts : shift_value' = t
    /\ UNCHANGED << input_file, output_file, range_start, range_end,
                    direction_switch, handler, pc, args, locals, err, dest,
                    dest0, driver >>

EditStart ==
    /\ hpc = "idle"
    /\ \E t \in StartTexts : range_start' = t
    /\ UNCHANGED << input_file, output_file, shift_value, range_end,
                    direction_switch, handler, pc, args, locals, err, dest,
                    dest0, driver >>

EditEnd ==
    /\ hpc = "idle"
    /\ \E t \in EndTexts : range_end' = t
    /\ UNCHANGED << input_file, output_file, shift_value, range_start,
                    direction_switch, handler, pc, args, locals, err, dest,
                    dest0, driver >>

ToggleSwitch ==
    /\ hpc = "idle"
    /\ direction_switch' = ~direction_switch
    /\ UNCHANGED << input_file, output_file, shift_value, range_start,
                    range_end, handler, pc, args, locals, err, dest, dest0,
                    driver >>

\* Validate with the parse of the end page left out of the try of lines
\* 109-117.
ValidateSkipsEnd(path, shiftText, startText, endText) ==
    IF path = << >> \/ ~IsFile(path) THEN "nofile"
    ELSE IF ~ParseFloat(shiftText).ok \/ ~ParseInt(startText).ok
    THEN "badparams"
    ELSE "ok"

\* Lines 105-117: which way the validation of a click goes.
Validate(path, shiftText, startText, endText) ==
    IF path = << >> \/ ~IsFile(path) THEN "nofile"
    ELSE IF ~ParseFloat(shiftText).ok \/ ~ParseInt(startText).ok
              \/ ~ParseEnd(endText).ok THEN "badparams"
    ELSE "ok"

\* process_pdf, lines 105-119: validate, then show "processing".
Click ==
    /\ hpc = "idle"
    /\ calls' = 0
    /\ LET v == Validate(input_file, shift_value, range_start, range_end) IN
       CASE v = "nofile" ->
              /\ status' = SelectFile
              /\ shown' = << SelectFile >>
              /\ hpc' = "idle"
              /\ UNCHANGED << shift_cm, start_page, end_arg, first_right >>
         [] v = "badparams" ->
              /\ status' = EnterParams
              /\ shown' = << EnterParams >>
              /\ hpc' = "idle"
              /\ UNCHANGED << shift_cm, start_page, end_arg, first_right >>
         [] v = "ok" ->
              /\ shift_cm' = ParseFloat(shift_value).val
              /\ start_page' = ParseInt(range_start).val
              /\ end_arg' = ParseEnd(range_end).val
              /\ first_right' = direction_switch
              /\ status' = Processing
              /\ shown' = << Processing >>
              /\ hpc' = "processing"
    /\ UNCHANGED << form, pc, input_path, output_path, locals, err, dest,
                    dest0, driver >>

\* process_pdf, lines 120-128: the call.
Invoke ==
    /\ hpc = "processing"
    /\ hpc' = "call"
    /\ calls' = calls + 1
    /\ input_path' = input_file
    /\ output_path' = output_file
    /\ pc' = "read"
    /\ err' = ""
    /\ dest0' = dest
    /\ UNCHANGED << form, status, shown, shift_cm, start_page, end_arg,
                    first_right, locals, dest, driver >>

\* Finish without the except of lines 130-131: a raised error leaves the
\* handler with the status as it was.
FinishNoExcept ==
    /\ hpc = "call"
    /\ pc \in {"returned", "raised"}
    /\ status' = IF pc = "returned" THEN Done ELSE status
    /\ shown' = IF pc = "returned" THEN Append(shown, Done) ELSE shown
    /\ hpc' = "idle"
    /\ input_path' = << >>
    /\ output_path' = << >>
    /\ shift_cm' = 0
    /\ start_page' = 0
    /\ end_arg' = None
    /\ first_right' = TRUE
    /\ reader' = << >>
    /\ writer' = << >>
    /\ shift' = 0
    /\ total_pages' = 0
    /\ i' = 0
    /\ end_page' = 0
    /\ dest0' = dest
    /\ UNCHANGED << form, calls, pc, err, dest, driver >>

\* process_pdf, lines 129-132: the call returned or raised; its frame is gone.
Finish ==
    /\ hpc = "call"
    /\ pc \in {"returned", "raised"}
    /\ status' = IF pc = "returned" THEN Done ELSE Failed(err)
    /\ shown' = Append(shown, status')
    /\ hpc' = "idle"
    /\ input_path' = << >>
    /\ output_path' = << >>
    /\ shift_cm' = 0
    /\ start_page' = 0
    /\ end_arg' = None
    /\ first_right' = TRUE
    /\ reader' = << >>
    /\ writer' = << >>
    /\ shift' = 0
    /\ total_pages' = 0
    /\ i' = 0
    /\ end_page' = 0
    /\ dest0' = dest
    /\ UNCHANGED << form, calls, pc, err, dest, driver >>

process_pdf == Click \/ Invoke \/ shift_pdf_pages \/ Finish

Next ==
    \/ pick_file_result
    \/ EditOutput
    \/ EditShift
    \/ EditStart
    \/ EditEnd
    \/ ToggleSwitch
    \/ process_pdf

Spec == Init /\ [][Next]_vars

\* The handler runs to its end once it started: no step of it waits.
FairSpec == Spec /\ WF_vars(Invoke \/ shift_pdf_pages \/ Finish)

-----------------------------------------------------------------------------
(* What the claims speak of *)

\* The pages of the input document, and their number.
InputPages == FileAt(input_path).pages
N == Len(InputPages)
Min(a, b) == IF a < b THEN a ELSE b

\* The end page in force: the last page when none is given, else the smaller
\* of the given one and the last page.
EndInForce == IF end_arg = None THEN N ELSE Min(end_arg[1], N)
InRange(p) == start_page <= p /\ p <= EndInForce

\* The translation the alternation rule gives page p: to the right when its
\* offset from start_page is even and first_right, or odd and not first_right.
GoesRight(p, right) ==
    LET offset == p - start_page IN
    (offset % 2 = 0 /\ right) \/ (offset % 2 = 1 /\ ~right)
Expected(p, right) ==
    IF GoesRight(p, right) THEN << shift_cm * PointsPerCm, 0 >>
    ELSE << -(shift_cm * PointsPerCm), 0 >>

Returned == pc = "returned"
TransformError == "content stream cannot be parsed"
WriteError == "No space left on device"
IsPrefix(a, b) == Len(a) <= Len(b) /\ a = SubSeq(b, 1, Len(a))

-----------------------------------------------------------------------------
(* C1 *)

\* C1: a call that returns has written a document of exactly as many pages as
\* the input has, and its page p is made from the input's page p: no page is
\* dropped, repeated or moved.
C1_PagesPreserved ==
    Returned =>
        /\ dest.complete
        /\ Len(dest.pages) = N
        /\ \A p \in 1..N : dest.pages[p].src = InputPages[p].src

\* A returned call on a document of MaxPages pages, some of them shifted and
\* some copied.
C1_Witness ==
    /\ Returned
    /\ N = MaxPages
    /\ \E p \in 1..N : dest.pages[p].ops # << >>
    /\ \E p \in 1..N : dest.pages[p].ops = << >>

-----------------------------------------------------------------------------
(* C2 *)

\* C2: in the output of a call that returns, every page before start_page or
\* after the end page in force equals the input's page: nothing was applied.
C2_OutsideUntouched ==
    Returned =>
        \A p \in 1..N : ~InRange(p) => dest.pages[p] = InputPages[p]

\* A returned call with a page before the range, one in it and one after it.
C2_Witness ==
    /\ Returned
    /\ \E p, q, r \in 1..N :
         /\ p < start_page
         /\ InRange(q)
         /\ r > EndInForce /\ r >= start_page

-----------------------------------------------------------------------------
(* C3 *)

\* C3: in the output of a call that returns, every page from start_page to
\* the end page in force carries exactly one translation, horizontal only:
\* +shift when its offset from start_page is even and first_right or odd and
\* not first_right, else -shift, with shift = shift_cm * 28.35; two in-range
\* pages next to each other go opposite ways.  On 4 pages with start 2, end 3
\* and first_right false: page 1 as it is, page 2 -shift, page 3 +shift,
\* page 4 as it is.
C3_Alternation ==
    Returned =>
        /\ \A p \in 1..N : InRange(p) =>
              /\ dest.pages[p].ops = << Expected(p, first_right) >>
              /\ dest.pages[p].src = InputPages[p].src
        /\ \A p \in 1..(N - 1) : InRange(p) /\ InRange(p + 1) =>
              dest.pages[p + 1].ops[1][1] = -(dest.pages[p].ops[1][1])
        /\ (/\ input_path = << "doc", 4, 0 >>
            /\ start_page = 2
            /\ end_arg = Some(3)
            /\ ~first_right)
           => /\ dest.pages[1].ops = << >>
              /\ dest.pages[2].ops = << << -(shift_cm * PointsPerCm), 0 >> >>
              /\ dest.pages[3].ops = << << shift_cm * PointsPerCm, 0 >> >>
              /\ dest.pages[4].ops = << >>

\* The 4-page example, returned, with a distance of 1.0 cm.
C3_Witness ==
    /\ Returned
    /\ input_path = << "doc", 4, 0 >>
    /\ start_page = 2
    /\ end_arg = Some(3)
    /\ ~first_right
    /\ shift_cm = 10
    /\ dest.pages[2].ops = << << -28350, 0 >> >>
    /\ dest.pages[3].ops = << << 28350, 0 >> >>

-----------------------------------------------------------------------------
(* C4 *)

\* C4 as claimed: after a call that raised, the destination is as it was
\* before the call or holds the complete transformed document.
C4_AllOrNothing ==
    pc = "raised" => dest = dest0 \/ dest = Document(writer)

\* C4 as the code has it: nothing touches the destination before every page
\* is assembled, so a call that raised while reading, transforming or opening
\* the destination leaves it as it was; a call that raised while serializing
\* leaves a created, incomplete file holding the pages written so far; a call
\* that returned leaves the complete transformed document.
C4_WriteAfterAssembly ==
    /\ pc \in {"read", "loop"} => dest = dest0
    /\ pc = "raised" /\ err # WriteError => dest = dest0
    /\ pc = "raised" /\ err = WriteError =>
          /\ dest.exists
          /\ ~dest.complete
          /\ IsPrefix(dest.pages, writer)
    /\ Returned => dest = Document(writer)

\* A call that raised while serializing, over an older document, with some
\* pages written and some not.
C4_Witness ==
    /\ pc = "raised"
    /\ err = WriteError
    /\ dest0 = StaleFile
    /\ dest.pages # << >>
    /\ Len(dest.pages) < Len(writer)
    /\ dest.pages[1].ops # << >>

-----------------------------------------------------------------------------
(* C7 *)

LocalsBound == pc \in {"loop", "write", "returned"}

\* C7: the end page the loop uses is the page count when end_page is unset
\* and the smaller of end_page and the page count when it is given; the loop
\* never goes past the last page; a call with end_page above the page count
\* that returns has shifted every page from start_page on, as with
\* end_page = page count, and a call that raised did so for a cause that has
\* nothing to do with end_page.
C7_EffectiveEnd ==
    /\ LocalsBound =>
          /\ total_pages = N
          /\ end_page = (IF end_arg = None THEN total_pages
                         ELSE Min(end_arg[1], total_pages))
          /\ end_page <= total_pages
          /\ i <= Len(reader)
          /\ Len(writer) = i
    /\ Returned /\ end_arg # None /\ end_arg[1] > N =>
          \A p \in 1..N :
              dest.pages[p].ops = (IF p >= start_page
                                   THEN << Expected(p, first_right) >>
                                   ELSE << >>)
    /\ pc = "raised" =>
          \/ ~Readable(FileAt(input_path))
          \/ \E p \in 1..N : InRange(p) /\ InputPages[p].malformed
          \/ ~Creatable(output_path)
          \/ err = WriteError

\* A returned call with end_page above the page count and pages shifted up
\* to the last one.
C7_Witness ==
    /\ Returned
    /\ N >= 2
    /\ end_arg = Some(N + 1)
    /\ start_page = 2
    /\ dest.pages[N].ops # << >>
    /\ dest.pages[1].ops = << >>

-----------------------------------------------------------------------------
(* C8 *)

\* C8: with start_page above the page count of a readable document, no page
\* is transformed whatever shift_cm, end_page and first_right are: the call
\* never raises in the transformation, every page is added as it is, and a
\* call that returns has written a document equal to the input.
C8_StartBeyondLast ==
    Readable(FileAt(input_path)) /\ start_page > N =>
        /\ err # TransformError
        /\ LocalsBound => writer = SubSeq(InputPages, 1, i)
        /\ Returned => dest = Document(InputPages)

\* A returned call with start_page above the page count of a document that
\* has a page add_transformation would fail on, and a distance that is not 0.
C8_Witness ==
    /\ Returned
    /\ N = MaxPages
    /\ start_page > N
    /\ shift_cm # 0
    /\ \E p \in 1..N : InputPages[p].malformed
    /\ dest = Document(InputPages)

-----------------------------------------------------------------------------
(* C9 *)

\* C9: a second call on the same document with the same shift_cm, start_page
\* and end_page and first_right flipped writes, for every page, no
\* translation where the first call wrote none, and else the one translation
\* of the first call with the sign of its horizontal part flipped.
C9_Mirror ==
    run = 2 /\ Returned =>
        /\ Len(dest.pages) = Len(prev)
        /\ \A p \in 1..Len(prev) :
              IF prev[p].ops = << >>
              THEN dest.pages[p].ops = << >>
              ELSE /\ Len(prev[p].ops) = 1
                   /\ Len(dest.pages[p].ops) = 1
                   /\ dest.pages[p].ops[1][1] = -(prev[p].ops[1][1])
                   /\ dest.pages[p].ops[1][2] = prev[p].ops[1][2]

\* A second call returned, with two pages in range next to each other, a page
\* outside, and a distance that is not 0.
C9_Witness ==
    /\ run = 2
    /\ Returned
    /\ shift_cm # 0
    /\ \E p \in 1..(N - 1) : prev[p].ops # << >> /\ prev[p + 1].ops # << >>
    /\ \E p \in 1..N : prev[p].ops = << >>

-----------------------------------------------------------------------------
(* C10 *)

\* C10: when start_page is above the end page in force (a given end_page
\* below start_page, or end_page <= 0, among others) on a readable document,
\* the call never raises in the transformation, every page is added as it is,
\* and a call that returns has written a document equal to the input: the
\* order of start_page and end_page is not checked.
C10_EmptyRange ==
    Readable(FileAt(input_path)) /\ start_page > EndInForce =>
        /\ err # TransformError
        /\ LocalsBound => writer = SubSeq(InputPages, 1, i)
        /\ Returned => dest = Document(InputPages)

\* A returned call with end_page <= 0 given below a start_page that is a page
\* of the document, which has a page add_transformation would fail on.
C10_Witness ==
    /\ Returned
    /\ N = MaxPages
    /\ end_arg # None
    /\ start_page \in 2..N
    /\ end_arg[1] <= 0
    /\ shift_cm # 0
    /\ \E p \in 1..N : InputPages[p].malformed
    /\ dest = Document(InputPages)

-----------------------------------------------------------------------------
(* C5 *)

\* The form as a click finds it.
NoValidFile == input_file = << >> \/ ~FileAt(input_file).exists
ParseFails ==
    \/ ~ParseFloat(shift_value).ok
    \/ ~ParseInt(range_start).ok
    \/ (Strip(range_end) # << >> /\ ~ParseInt(range_end).ok)
\* A step of the handler taken from rest: a click.
ClickStep == hpc = "idle" /\ handler' # handler

\* C5: a click on a form whose input path is empty or names no file, or one
\* of whose shift distance, start page and end page does not parse as a
\* number, makes no call of shift_pdf_pages, shows the status "select a
\* valid file" in the first case and "enter valid parameters" in the second,
\* and never shows "processing".
C5_InvalidClick ==
    [][ClickStep /\ (NoValidFile \/ ParseFails) =>
          /\ hpc' = "idle"
          /\ calls' = 0
          /\ UNCHANGED << pc, args, locals, err, dest >>
          /\ status' = (IF NoValidFile THEN SelectFile ELSE EnterParams)
          /\ shown' = << status' >>
          /\ status' # Processing]_vars

\* The handler at rest after a click on a form with a file and an end page
\* that is no number: the message shown, no call made.
C5_Witness ==
    /\ hpc = "idle"
    /\ ~NoValidFile
    /\ range_end = << "x" >>
    /\ ParseFloat(shift_value).ok
    /\ ParseInt(range_start).ok
    /\ calls = 0
    /\ status = EnterParams
    /\ shown = << EnterParams >>

-----------------------------------------------------------------------------
(* C6 *)

Terminal == {Done} \cup {Failed(m) : m \in {"EOF marker not found",
                "No such file or directory", TransformError, WriteError}}

\* What holds at each position of the handler.
C6_Positions ==
    /\ calls \in {0, 1}
    /\ hpc = "processing" =>
          status = Processing /\ calls = 0 /\ shown = << Processing >>
    /\ hpc = "call" =>
          status = Processing /\ calls = 1 /\ shown = << Processing >>
    /\ hpc = "idle" => status # Processing
    /\ hpc = "idle" /\ calls = 1 =>
          /\ pc \in {"returned", "raised"}
          /\ pc = "returned" => status = Done
          /\ pc = "raised" => err # "" /\ status = Failed(err)
          /\ status \in Terminal
          /\ shown = << Processing, status >>

\* C6: a click on a form that passes validation shows "processing" and makes
\* one call of shift_pdf_pages, never a second; the handler then always comes
\* to rest with the status "done" when the call returned and "failed: " with
\* the error's message when it raised, never with "processing".
C6_ValidClick ==
    /\ []C6_Positions
    /\ [][ClickStep /\ ~(NoValidFile \/ ParseFails) =>
             status' = Processing /\ hpc' = "processing" /\ calls' = 0]_vars
    /\ [][calls' # calls => calls' = 0 \/ (hpc = "processing" /\ hpc' = "call")]_vars
    /\ (hpc = "processing" ~> (hpc = "idle" /\ calls = 1 /\ status \in Terminal))

\* The handler at rest after a call that raised while serializing: the
\* message of the error in the status.
C6_Witness ==
    /\ hpc = "idle"
    /\ calls = 1
    /\ pc = "raised"
    /\ status = "failed: No space left on device"
    /\ shown = << Processing, status >>
    /\ dest.pages # << >>

====
